---- MODULE Spec2Model ----
(***************************************************************************)
(* The login command of moodify (src/cmd/login.go) and the authentication  *)
(* package it drives (src/internal/auth/auth.go): the automatic port       *)
(* fallback of SmartLogin, one Login attempt with its callback server, the *)
(* callback handlers (one goroutine per request), the two single-slot      *)
(* channels, the three-way select and the token file.                      *)
(*                                                                         *)
(* Concurrency is interleaving: the main goroutine (runLogin / SmartLogin  *)
(* / Login), the server goroutine (ListenAndServe), one goroutine per      *)
(* callback request, and the environment (the context's deadline, other    *)
(* processes taking ports, the browser issuing requests, the token         *)
(* endpoint's replies).                                                    *)
(*                                                                         *)
(* StoreSpec is the token store at the level of the file system: the       *)
(* config directory and token.json with its mode and content, saveToken    *)
(* as the open and the write of os.WriteFile, loadToken, deleteToken,      *)
(* Logout, QuickCheck and GetAuthenticatedClient with its refresh, next to *)
(* the loadToken of another moodify process.                               *)
(*                                                                         *)
(* CommandSpec is the session commands (search, discover, now, playlists)  *)
(* over the same token store, NetSpec the manual login with requests from  *)
(* any host that reaches the listener, ParseSpec the query parser          *)
(* SimpleParse (package ai) called repeatedly on one query.                *)
(***************************************************************************)
EXTENDS Integers, Sequences, FiniteSets, TLC

\* ------------------------------------------------------------------ bounds
\* Callback requests delivered to the process in one run of the command.
MaxReq == 2

\* ------------------------------------------------------- program constants
DefaultPort == 8808
CommonPorts == <<8808, 8080, 3000, 8000, 9000>>
\* Capacity of tokenChan and of errChan: make(chan ..., 1).
ChanCap == 1
StatusOK == 200
StatusBadRequest == 400
StatusInternalServerError == 500

Ports == {CommonPorts[i] : i \in 1..Len(CommonPorts)}
\* Values of the state parameter: the handler only compares the request's
\* with the attempt's, so two values tell equal from different.
Nonces == {"s1", "s2"}

\* Values of the --port and --client-id flags the model draws from.
FlagPorts == {DefaultPort, 9000}
FlagClientIDs == {"", "custom"}

\* Query parameters of a callback request (r.FormValue: "" when absent).
ReqStates == Nonces
ReqErrors == {"", "access_denied"}
ReqCodes == {"", "code"}

\* What the token endpoint can answer to the code grant.
ExchangeReplies == {"transportError", "non200", "undecodable", "ok"}
\* How saveToken can end: written, failed before the file was opened
\* (getTokenPath / MkdirAll / open), failed after os.WriteFile truncated it.
SaveOutcomes == {"ok", "failBefore", "failAfterTruncate"}

VARIABLES
    flagPort,      \* --port
    flagClientID,  \* --client-id
    ctxDone,       \* the context of runLogin is cancelled / past its deadline
    tokenFile,     \* ~/.config/moodify/token.json
    \* SmartLogin
    spc,           \* position of runLogin / SmartLogin
    idx,           \* loop index into CommonPorts (1-based)
    probeLn,       \* port held by isPortAvailable's probe listener, 0 if none
    lastProbe,     \* the last probe made: candidate index and result
    nProbeOk,      \* probes that found their port available so far
    nLogin,        \* Login calls made so far
    nOk,           \* Login calls that returned nil so far
    cmdResult,     \* what the command returned
    \* one Login attempt
    lpc,           \* position of Login
    cfgPort,       \* config.Port (and the port of config.RedirectURI)
    state,         \* the attempt's state parameter
    tokenChan,
    errChan,
    srv,           \* position of the server goroutine
    shuttingDown,  \* server.Shutdown has been called
    bound,         \* the callback listener holds cfgPort
    h,             \* the callback handler goroutines, by request (nx: the
                   \* exchange calls the handler has made)
    branch,        \* the select case taken
    got,           \* the value the select received (error or token)
    nExch,         \* token exchange calls made for this attempt
    nWrites,       \* os.WriteFile calls on the token file by this attempt
    fileAtStart,   \* the token file when the attempt started
    cancelledAtWrite, \* the context was done when this attempt wrote the file
    loginResult,   \* what Login returned
    origin         \* where the last request the listener accepted came from

\* The token store seen at the level of the file system, and the commands
\* that use it (logout, QuickCheck, GetAuthenticatedClient, saveToken).
VARIABLES
    now,           \* the wall clock, in seconds
    disk,          \* ~/.config/moodify and token.json in it
    mpc,           \* position of the command that is running
    mop,           \* the running command: its operation and its tokens
    mres,          \* the last operation that returned, and what it returned
    rres,          \* the last loadToken of another moodify process
    loggedOut,     \* a Logout succeeded and no Login has succeeded since
    nRefresh       \* calls of the token endpoint's refresh grant made by the
                   \* operation that is running, or by the last one

\* A session command (search, discover, now, playlists) of this process.
VARIABLES
    sess           \* the command, its position and what it returned

\* SimpleParse (the parser of search queries) called on one query.
VARIABLES
    query,         \* the words of the query text
    parsed         \* the Filters the calls made so far returned

loginVars == <<flagPort, flagClientID, ctxDone, tokenFile,
          spc, idx, probeLn, lastProbe, nProbeOk, nLogin, nOk, cmdResult,
          lpc, cfgPort, state, tokenChan, errChan, srv, shuttingDown, bound, h,
          branch, got, nExch, nWrites, fileAtStart, cancelledAtWrite, loginResult,
          origin>>

storeVars == <<now, disk, mpc, mop, mres, rres, loggedOut, nRefresh>>

cmdVars == <<sess>>

parseVars == <<query, parsed>>

vars == <<loginVars, storeVars, cmdVars, parseVars>>

envVars == <<flagPort, flagClientID, ctxDone>>
flowVars == <<spc, idx, probeLn, lastProbe, nProbeOk, nLogin, nOk, cmdResult>>
chanVars == <<tokenChan, errChan>>
srvVars == <<srv, shuttingDown, bound>>
ghostVars == <<nExch, nWrites, fileAtStart, cancelledAtWrite>>

\* ------------------------------------------------------------- token file
NoFile == [st |-> "absent", tok |-> 0]
CorruptFile == [st |-> "corrupt", tok |-> 0]
FileOf(tok) == [st |-> "token", tok |-> tok]
\* A token stored by an earlier run of the command.
OldToken == 0

\* saveToken: the file after the call, by how the call ends.
SaveToken(file, tok, outcome) ==
    CASE outcome = "ok" -> FileOf(tok)
      [] outcome = "failBefore" -> file
      [] outcome = "failAfterTruncate" -> CorruptFile

SaveError(outcome) == outcome # "ok"

\* ------------------------------------------------------------ token store
\* Seconds in the guard of QuickCheck (1 * time.Minute) and in the lookahead
\* of GetAuthenticatedClient (5 * time.Minute).
QuickCheckGuard == 60
RefreshLookahead == 300

\* The clock reading of a run (the commands of a run are taken to read the
\* same second), and the lifetime the token endpoint grants (expires_in).
Times == {0, 300, 360, 480, 540, 570, 660}
ExpiresIn == {30, 3600}

\* time.Time: the wall clock instant, and whether the value carries a
\* monotonic reading (time.Now() does, a decoded time does not).
Time(wall, mono) == [wall |-> wall, mono |-> mono]
ZeroTime == Time(0, FALSE)
\* t.After(u), t.Before(u)
After(t, u) == t.wall > u.wall
Before(t, u) == t.wall < u.wall
\* t.Add(d)
Add(t, d) == Time(t.wall + d, t.mono)

\* oauth2.Token / TokenStore: the four fields that are stored.
Token(a, r, ty, e) == [access |-> a, refresh |-> r, type |-> ty, expiry |-> e]
NilToken == Token("", "", "", ZeroTime)
AccessTokens == {"a1", "a2"}
RefreshTokens == {"", "r1"}
\* The record of an earlier login, as loadToken returns it.
StoredToken == Token("a0", "r0", "Bearer", Time(600, FALSE))

\* File modes as sets of permission bits; 0600, a broader 0644, the process's
\* umask (022).
Mode0600 == {"ur", "uw"}
Mode0644 == {"ur", "uw", "gr", "or"}
Umask == {"gw", "ow"}

\* The JSON text of a TokenStore, as the sequence of its pieces: "{", one
\* member per field in the order of the struct, "}". A member holds a string
\* (s) or, for the expiry, the RFC 3339 text of the instant (n).
Item(k, sv, nv) == [k |-> k, s |-> sv, n |-> nv]
\* time.Time.MarshalJSON keeps the instant and drops the monotonic reading.
MarshalTime(t) == t.wall
UnmarshalTime(n) == Time(n, FALSE)

\* Mutant of MarshalIndent: the refresh token is left out of the text.
MarshalIndentNoRefresh(tok) ==
    << Item("{", "", 0),
       Item("access_token", tok.access, 0),
       Item("token_type", tok.type, 0),
       Item("expiry", "", MarshalTime(tok.expiry)),
       Item("}", "", 0) >>

\* json.MarshalIndent(tokenStore, "", "  ")
MarshalIndent(tok) ==
    << Item("{", "", 0),
       Item("access_token", tok.access, 0),
       Item("refresh_token", tok.refresh, 0),
       Item("token_type", tok.type, 0),
       Item("expiry", "", MarshalTime(tok.expiry)),
       Item("}", "", 0) >>

\* json.Unmarshal: the text must be a complete object; members are found
\* by their key, a missing member leaves the field at its zero value.
WellFormed(data) ==
    /\ Len(data) >= 2
    /\ data[1].k = "{"
    /\ data[Len(data)].k = "}"

Member(data, key) ==
    IF \E i \in 1..Len(data) : data[i].k = key
      THEN data[CHOOSE i \in 1..Len(data) : data[i].k = key]
      ELSE Item(key, "", 0)

Unmarshal(data) ==
    Token(Member(data, "access_token").s,
          Member(data, "refresh_token").s,
          Member(data, "token_type").s,
          UnmarshalTime(Member(data, "expiry").n))

\* The config directory and the token file: whether each exists, the file's
\* mode and its content.
Disk(dir, file, mode, data) == [dir |-> dir, file |-> file, mode |-> mode, data |-> data]
NoDir == Disk(FALSE, FALSE, {}, <<>>)
EmptyDir == Disk(TRUE, FALSE, {}, <<>>)
\* A file cut short (an earlier write that did not complete).
TruncatedData == <<Item("{", "", 0), Item("access_token", "a0", 0)>>
InitialDisks ==
    { NoDir, EmptyDir,
      Disk(TRUE, TRUE, Mode0600, MarshalIndent(StoredToken)),
      Disk(TRUE, TRUE, Mode0644, MarshalIndent(StoredToken)),
      Disk(TRUE, TRUE, Mode0600, TruncatedData) }

\* getTokenPath: os.MkdirAll creates the config directory when it is missing.
GetTokenPath(d) == [d EXCEPT !.dir = TRUE]

\* What loadToken returns for the file as it is.
Loaded(err, tok) == [err |-> err, tok |-> tok]
LoadToken(d) ==
    IF ~d.file THEN Loaded("notFound", NilToken)
    ELSE IF ~WellFormed(d.data) THEN Loaded("unmarshal", NilToken)
    ELSE Loaded("", Unmarshal(d.data))

\* Mutant of OpenTrunc: a new file is readable by everyone.
OpenTruncWorldReadable(d, perm) ==
    [d EXCEPT !.file = TRUE,
              !.mode = IF d.file THEN d.mode ELSE Mode0644,
              !.data = <<>>]

\* os.WriteFile's OpenFile(O_WRONLY|O_CREATE|O_TRUNC, perm): a missing file
\* is created with perm less the umask, an existing one is emptied and keeps
\* its mode.
OpenTrunc(d, perm) ==
    [d EXCEPT !.file = TRUE,
              !.mode = IF d.file THEN d.mode ELSE perm \ Umask,
              !.data = <<>>]

\* os.WriteFile, f.Write: the first n pieces of the data reach the file.
WriteUpTo(d, data, n) == [d EXCEPT !.data = SubSeq(data, 1, n)]

\* How much of the data a write can put in the file before it returns:
\* nothing, a part, all of it.
WriteLengths == {0, 2, Len(MarshalIndent(NilToken))}

\* os.Remove
Remove(d) == [d EXCEPT !.file = FALSE, !.mode = {}, !.data = <<>>]

\* The running command: its operation, the token it is about to save, the
\* token it loaded, the disk when it started.
Op(kind, tok, old, before) ==
    [kind |-> kind, tok |-> tok, old |-> old, before |-> before]
NoOp == Op("none", NilToken, NilToken, NoDir)

\* What the last operation returned: its error ("" for nil), the token it
\* returned or saved, QuickCheck's answer (yes), the disk before it (the
\* disk after it is the disk, until the next operation touches it), whether
\* it called the token endpoint with the refresh grant, and the error of its
\* saveToken call.
Result(kind, err, tok, yes, before, refreshed, saveErr) ==
    [kind |-> kind, err |-> err, tok |-> tok, yes |-> yes, before |-> before,
     refreshed |-> refreshed, saveErr |-> saveErr]
NoResult == Result("none", "", NilToken, FALSE, NoDir, FALSE, "")

\* A loadToken of another process: its error, whether a saveToken was
\* between its open and its write at that moment, and whether the content
\* read was whole: the content before that saveToken or the one it writes.
Read(done, err, during, whole) ==
    [done |-> done, err |-> err, during |-> during, whole |-> whole]
NoRead == Read(FALSE, "", FALSE, TRUE)

\* ------------------------------------------------------- callback handler
\* An error as it travels from a handler to Login's caller: its kind and
\* what it carries (the provider's error of an authorization error).
Sig(kind, det) == [kind |-> kind, det |-> det]
NoSig == Sig("none", "")

NoReq == [pc |-> "absent", st |-> "", er |-> "", code |-> "",
          resp |-> 0, sig |-> NoSig, tok |-> 0, nx |-> 0]

\* Mutant of CallbackChecks: the state parameter is not checked.
CallbackChecksNoState(st, er, code, attemptState) ==
    IF er # ""
      THEN [pc |-> "sendErr", resp |-> StatusBadRequest, sig |-> Sig("authError", er)]
    ELSE IF code = ""
      THEN [pc |-> "sendErr", resp |-> StatusBadRequest, sig |-> Sig("noCode", "")]
    ELSE [pc |-> "exchange", resp |-> 0, sig |-> NoSig]

\* Mutant of CallbackChecks: the error is looked at before the state.
CallbackChecksErrorFirst(st, er, code, attemptState) ==
    IF er # ""
      THEN [pc |-> "sendErr", resp |-> StatusBadRequest, sig |-> Sig("authError", er)]
    ELSE IF st # attemptState
      THEN [pc |-> "sendErr", resp |-> StatusBadRequest, sig |-> Sig("invalidState", "")]
    ELSE IF code = ""
      THEN [pc |-> "sendErr", resp |-> StatusBadRequest, sig |-> Sig("noCode", "")]
    ELSE [pc |-> "exchange", resp |-> 0, sig |-> NoSig]

\* Mutant of CallbackChecks: the code is looked at before the error.
CallbackChecksCodeFirst(st, er, code, attemptState) ==
    IF st # attemptState
      THEN [pc |-> "sendErr", resp |-> StatusBadRequest, sig |-> Sig("invalidState", "")]
    ELSE IF code # ""
      THEN [pc |-> "exchange", resp |-> 0, sig |-> NoSig]
    ELSE IF er # ""
      THEN [pc |-> "sendErr", resp |-> StatusBadRequest, sig |-> Sig("authError", er)]
    ELSE [pc |-> "sendErr", resp |-> StatusBadRequest, sig |-> Sig("noCode", "")]

\* The handler's checks up to the exchange, in the code's order: the state
\* parameter, the error parameter, the code parameter.
CallbackChecks(st, er, code, attemptState) ==
    IF st # attemptState
      THEN [pc |-> "sendErr", resp |-> StatusBadRequest, sig |-> Sig("invalidState", "")]
    ELSE IF er # ""
      THEN [pc |-> "sendErr", resp |-> StatusBadRequest, sig |-> Sig("authError", er)]
    ELSE IF code = ""
      THEN [pc |-> "sendErr", resp |-> StatusBadRequest, sig |-> Sig("noCode", "")]
    ELSE [pc |-> "exchange", resp |-> 0, sig |-> NoSig]

\* The token endpoint issues a fresh token on every successful code grant:
\* the token issued to the exchange of request r.
TokenFor(r) == r

\* exchangeCodeForToken: an error for a transport failure, a non-200 status
\* or an undecodable body, else the token of the reply.
ExchangeCodeForToken(reply, tok) ==
    IF reply = "ok" THEN [ok |-> TRUE, tok |-> tok]
    ELSE [ok |-> FALSE, tok |-> 0]

\* Mutant of AfterExchange: a failed exchange is tried again.
AfterExchangeRetry(res) ==
    IF res.ok
      THEN [pc |-> "sendTok", resp |-> StatusOK, sig |-> NoSig, tok |-> res.tok]
      ELSE [pc |-> "exchange", resp |-> 0, sig |-> NoSig, tok |-> 0]

\* The handler after the exchange returned.
AfterExchange(res) ==
    IF res.ok
      THEN [pc |-> "sendTok", resp |-> StatusOK, sig |-> NoSig, tok |-> res.tok]
      ELSE [pc |-> "sendErr", resp |-> StatusInternalServerError,
            sig |-> Sig("exchangeFailed", ""), tok |-> 0]

\* What the select has received: nothing yet, an error, or a token.
NoSignal == [err |-> NoSig, tok |-> 0]

\* A handler that has returned: its locals are gone.
DoneReq == [NoReq EXCEPT !.pc = "done"]

Reqs == 1..MaxReq
Active(r) == h[r].pc \in {"exchange", "sendErr", "sendTok"}
Arrived == {r \in Reqs : h[r].pc # "absent"}

\* ------------------------------------------------------------------- Init
\* The login command before it runs.
LoginAtRest ==
    /\ flagPort \in FlagPorts
    /\ flagClientID \in FlagClientIDs
    /\ ctxDone = FALSE
    /\ tokenFile \in {NoFile, FileOf(OldToken)}
    /\ spc = "start"
    /\ idx = 1
    /\ probeLn = 0
    /\ lastProbe = [idx |-> 0, ok |-> FALSE]
    /\ nProbeOk = 0
    /\ nLogin = 0
    /\ nOk = 0
    /\ cmdResult = "none"
    /\ lpc = "idle"
    /\ cfgPort = 0
    /\ state = ""
    /\ tokenChan = <<>>
    /\ errChan = <<>>
    /\ srv = "none"
    /\ shuttingDown = FALSE
    /\ bound = FALSE
    /\ h = [r \in Reqs |-> NoReq]
    /\ branch = "none"
    /\ got = NoSignal
    /\ nExch = 0
    /\ nWrites = 0
    /\ fileAtStart = tokenFile
    /\ cancelledAtWrite = FALSE
    /\ loginResult = NoSig
    /\ origin = "none"

\* No command of the token store has run.
StoreAtRest ==
    /\ loggedOut = FALSE
    /\ mpc = "idle"
    /\ mop = NoOp
    /\ mres = NoResult
    /\ rres = NoRead
    /\ nRefresh = 0

\* No session command has run. (gate: what its QuickCheck answered; client:
\* it has called GetAuthenticatedClient.)
NoSess == [cmd |-> "none", pc |-> "idle", gate |-> FALSE, client |-> FALSE,
           out |-> ""]

CmdAtRest == sess = NoSess

\* SimpleParse has not been called.
ParseAtRest ==
    /\ query = {}
    /\ parsed = <<>>

Init ==
    /\ LoginAtRest
    /\ StoreAtRest
    /\ CmdAtRest
    /\ ParseAtRest
    /\ now = 0
    /\ disk = NoDir

\* ------------------------------------------------------------ environment
\* The context's deadline passes (runLogin: context.WithTimeout, 5 minutes).
CtxExpire ==
    /\ spc # "done"
    /\ ~ctxDone
    /\ ctxDone' = TRUE
    /\ UNCHANGED <<storeVars, cmdVars, parseVars, origin, flagPort, flagClientID, tokenFile>>
    /\ UNCHANGED <<flowVars, lpc, cfgPort, state, chanVars, srvVars, h, branch,
                   got, ghostVars, loginResult>>

\* --------------------------------------------------------- one Login call
\* net.Listen on ":port" succeeds iff nobody holds the port. Other processes
\* take and release ports as they please, so whether one of them holds the
\* port at the moment of a bind is an input of the bind (free).
CanBind(p, free) == free /\ probeLn # p /\ ~(bound /\ cfgPort = p)

\* The server goroutine of the attempt has returned, or was never started.
ServerGone == srv \in {"none", "closed", "failed"}

\* The goroutines of an attempt have no bearing on the next one (fresh
\* channels, another port): the model follows one attempt at a time and
\* leaves them behind when SmartLogin moves on to the next candidate. The
\* requests of the attempt left behind count as delivered.
Forgotten == [r \in Reqs |-> IF h[r].pc = "absent" THEN h[r] ELSE DoneReq]

\* Login up to the select: the PKCE parameters, the two channels, the server
\* and its handler, the server goroutine, openBrowser (whether the browser
\* opens or the URL is printed, Login goes on to the select).
LoginBegin(port) ==
    /\ \E s \in Nonces : state' = s
    /\ cfgPort' = port
    /\ tokenChan' = <<>>
    /\ errChan' = <<>>
    /\ srv' = "spawned"
    /\ shuttingDown' = FALSE
    /\ bound' = FALSE
    /\ h' = Forgotten
    /\ branch' = "none"
    /\ got' = NoSignal
    /\ nExch' = 0
    /\ nWrites' = 0
    /\ fileAtStart' = tokenFile
    /\ cancelledAtWrite' = FALSE
    /\ loginResult' = NoSig
    /\ lpc' = "select"

\* Mutant of SelectToken: the token is saved before the server is shut down.
SelectTokenSavesFirst ==
    /\ lpc = "select"
    /\ tokenChan # <<>>
    /\ got' = [err |-> NoSig, tok |-> Head(tokenChan)]
    /\ tokenChan' = Tail(tokenChan)
    /\ branch' = "token"
    /\ lpc' = "save"
    /\ UNCHANGED <<storeVars, cmdVars, parseVars, origin, envVars, tokenFile, flowVars,
                   cfgPort, state, errChan, srvVars, h, ghostVars, loginResult>>

\* select, case token := <-tokenChan
SelectToken ==
    /\ lpc = "select"
    /\ tokenChan # <<>>
    /\ got' = [err |-> NoSig, tok |-> Head(tokenChan)]
    /\ tokenChan' = Tail(tokenChan)
    /\ branch' = "token"
    /\ lpc' = "shutdown"
    /\ UNCHANGED <<storeVars, cmdVars, parseVars, origin, envVars, tokenFile, flowVars, cfgPort, state, errChan,
                   srvVars, h, ghostVars, loginResult>>

\* select, case err := <-errChan
SelectErr ==
    /\ lpc = "select"
    /\ errChan # <<>>
    /\ got' = [err |-> Head(errChan), tok |-> 0]
    /\ errChan' = Tail(errChan)
    /\ branch' = "err"
    /\ lpc' = "shutdown"
    /\ UNCHANGED <<storeVars, cmdVars, parseVars, origin, envVars, tokenFile, flowVars, cfgPort, state, tokenChan,
                   srvVars, h, ghostVars, loginResult>>

\* select, case <-ctx.Done()
SelectCtx ==
    /\ lpc = "select"
    /\ ctxDone
    /\ got' = [err |-> Sig("cancelled", ""), tok |-> 0]
    /\ branch' = "ctx"
    /\ lpc' = "shutdown"
    /\ UNCHANGED <<storeVars, cmdVars, parseVars, origin, envVars, tokenFile, flowVars, cfgPort, state, chanVars,
                   srvVars, h, ghostVars, loginResult>>

\* Mutant of ShutdownBegin: Login goes on without calling server.Shutdown.
ShutdownBeginSkipped ==
    /\ lpc = "shutdown"
    /\ lpc' = "shutdownWait"
    /\ UNCHANGED <<storeVars, cmdVars, parseVars, origin, envVars, tokenFile, flowVars, cfgPort, state, chanVars,
                   srvVars, h, branch, got, ghostVars, loginResult>>

\* server.Shutdown, first half: the server is marked as shutting down and
\* the listeners it tracks are closed (the accept loop then returns
\* ErrServerClosed).
ShutdownBegin ==
    /\ lpc = "shutdown"
    /\ shuttingDown' = TRUE
    /\ IF srv = "serving"
         THEN srv' = "closed" /\ bound' = FALSE
         ELSE UNCHANGED <<srv, bound>>
    /\ lpc' = "shutdownWait"
    /\ UNCHANGED <<storeVars, cmdVars, parseVars, origin, envVars, tokenFile, flowVars, cfgPort, state, chanVars,
                   h, branch, got, ghostVars, loginResult>>

\* Mutant of ShutdownMayReturn: Shutdown does not look at the context.
ShutdownIgnoresContext == \A r \in Reqs : ~Active(r)

\* What Shutdown(ctx) waits for: no connection with a running handler, or
\* the context done.
ShutdownMayReturn == ctxDone \/ \A r \in Reqs : ~Active(r)

\* Mutant of ShutdownReturn: every select case goes on to saveToken.
ShutdownReturnAlwaysSaves ==
    /\ lpc = "shutdownWait"
    /\ ShutdownMayReturn
    /\ lpc' = "save"
    /\ UNCHANGED <<storeVars, cmdVars, parseVars, origin, envVars, tokenFile, flowVars, cfgPort, state, chanVars,
                   srvVars, h, branch, got, ghostVars, loginResult>>

\* server.Shutdown returns; on the error and the cancel case Login returns.
ShutdownReturn ==
    /\ lpc = "shutdownWait"
    /\ ShutdownMayReturn
    /\ IF branch = "token"
         THEN /\ lpc' = "save"
              /\ UNCHANGED loginResult
         ELSE /\ lpc' = "returned"
              /\ loginResult' = got.err
    /\ UNCHANGED <<storeVars, cmdVars, parseVars, origin, envVars, tokenFile, flowVars, cfgPort, state, chanVars,
                   srvVars, h, branch, got, ghostVars>>

LoginResultOfSave(outcome) ==
    IF SaveError(outcome) THEN Sig("saveFailed", "") ELSE Sig("ok", "")

\* The token case after Shutdown: saveToken, then Login returns.
SaveStep(outcome) ==
    /\ lpc = "save"
    /\ tokenFile' = SaveToken(tokenFile, got.tok, outcome)
    /\ nWrites' = nWrites + (IF outcome = "failBefore" THEN 0 ELSE 1)
    /\ cancelledAtWrite' = (cancelledAtWrite \/ (outcome # "failBefore" /\ ctxDone))
    /\ loginResult' = LoginResultOfSave(outcome)
    /\ nOk' = nOk + (IF SaveError(outcome) THEN 0 ELSE 1)
    /\ lpc' = "returned"
    /\ UNCHANGED <<storeVars, cmdVars, parseVars, origin, envVars, spc, idx, probeLn, lastProbe, nProbeOk, nLogin, cmdResult,
                   cfgPort, state, chanVars, srvVars, h, branch, got, nExch,
                   fileAtStart>>

\* ------------------------------------------------------- server goroutine
\* ListenAndServe up to net.Listen: ErrServerClosed when Shutdown was called
\* first, the bind error when the port is taken, else the listener is open.
SrvListen(free) ==
    /\ srv = "spawned"
    /\ IF shuttingDown
         THEN srv' = "closed" /\ UNCHANGED bound
       ELSE IF CanBind(cfgPort, free)
         THEN srv' = "listening" /\ bound' = TRUE
       ELSE srv' = "bindFailed" /\ UNCHANGED bound
    /\ UNCHANGED <<storeVars, cmdVars, parseVars, origin, envVars, tokenFile, flowVars, lpc, cfgPort, state,
                   chanVars, shuttingDown, h, branch, got, ghostVars, loginResult>>

\* Serve registers the listener with the server; when Shutdown was called
\* in between, Serve closes the listener itself and returns ErrServerClosed.
SrvServe ==
    /\ srv = "listening"
    /\ IF shuttingDown
         THEN srv' = "closed" /\ bound' = FALSE
         ELSE srv' = "serving" /\ UNCHANGED bound
    /\ UNCHANGED <<storeVars, cmdVars, parseVars, origin, envVars, tokenFile, flowVars, lpc, cfgPort, state,
                   chanVars, shuttingDown, h, branch, got, ghostVars, loginResult>>

\* Mutant of SrvSendErr: the bind error is logged and not sent.
SrvSendErrDropped ==
    /\ srv = "bindFailed"
    /\ srv' = "failed"
    /\ UNCHANGED <<storeVars, cmdVars, parseVars, origin, envVars, tokenFile, flowVars, lpc, cfgPort, state,
                   chanVars, shuttingDown, bound, h, branch, got, ghostVars,
                   loginResult>>

\* errChan <- "callback server error": blocks while the slot is full.
SrvSendErr ==
    /\ srv = "bindFailed"
    /\ Len(errChan) < ChanCap
    /\ errChan' = Append(errChan, Sig("serverError", ""))
    /\ srv' = "failed"
    /\ UNCHANGED <<storeVars, cmdVars, parseVars, origin, envVars, tokenFile, flowVars, lpc, cfgPort, state,
                   tokenChan, shuttingDown, bound, h, branch, got, ghostVars,
                   loginResult>>

\* ------------------------------------------------------ callback handlers
\* Where a request to the listener comes from: this machine, or another host
\* that can reach one of its network interfaces.
Origins == {"local", "remote"}

\* The address the callback server listens on (http.Server Addr) and the one
\* isPortAvailable probes: ":" + port, no host, which is every interface.
ListenAddr(port) == [host |-> "", port |-> port]

\* A listener on addr accepts a connection from an origin: one without a
\* host accepts from anywhere, one on a loopback host from this machine only.
Accepts(addr, from) ==
    \/ addr.host = ""
    \/ addr.host \in {"127.0.0.1", "localhost"} /\ from = "local"

\* A request to /callback is accepted and its handler runs the checks and,
\* when one fails, writes the error response.
CallbackFrom(from, r, st, er, code) ==
    /\ spc # "done"
    /\ srv = "serving"
    /\ Accepts(ListenAddr(cfgPort), from)
    /\ h[r].pc = "absent"
    /\ r = Cardinality(Arrived) + 1
    /\ LET c == CallbackChecks(st, er, code, state)
       IN h' = [h EXCEPT ![r] = [pc |-> c.pc, st |-> st, er |-> er, code |-> code,
                                 resp |-> c.resp, sig |-> c.sig, tok |-> 0,
                                 nx |-> 0]]
    /\ origin' = from
    /\ UNCHANGED <<storeVars, cmdVars, parseVars, envVars, tokenFile, flowVars, lpc,
                   cfgPort, state, chanVars, srvVars, branch, got, ghostVars,
                   loginResult>>

\* The request of the browser that openBrowser started (or of the user, on
\* this machine, following the printed URL).
Callback(r, st, er, code) == CallbackFrom("local", r, st, er, code)

\* The handler's call of exchangeCodeForToken and the response after it.
Exchange(r, reply) ==
    /\ spc # "done"
    /\ h[r].pc = "exchange"
    /\ LET res == ExchangeCodeForToken(reply, TokenFor(r))
           a == AfterExchange(res)
       IN h' = [h EXCEPT ![r].pc = a.pc, ![r].resp = a.resp, ![r].sig = a.sig,
                         ![r].tok = a.tok, ![r].nx = h[r].nx + 1]
    /\ nExch' = nExch + 1
    /\ UNCHANGED <<storeVars, cmdVars, parseVars, origin, envVars, tokenFile, flowVars, lpc, cfgPort, state, chanVars,
                   srvVars, branch, got, nWrites, fileAtStart, cancelledAtWrite,
                   loginResult>>

\* errChan <- err: blocks while the slot is full.
SendErr(r) ==
    /\ spc # "done"
    /\ h[r].pc = "sendErr"
    /\ Len(errChan) < ChanCap
    /\ errChan' = Append(errChan, h[r].sig)
    /\ h' = [h EXCEPT ![r] = DoneReq]
    /\ UNCHANGED <<storeVars, cmdVars, parseVars, origin, envVars, tokenFile, flowVars, lpc, cfgPort, state,
                   tokenChan, srvVars, branch, got, ghostVars, loginResult>>

\* tokenChan <- token: blocks while the slot is full.
SendTok(r) ==
    /\ spc # "done"
    /\ h[r].pc = "sendTok"
    /\ Len(tokenChan) < ChanCap
    /\ tokenChan' = Append(tokenChan, h[r].tok)
    /\ h' = [h EXCEPT ![r] = DoneReq]
    /\ UNCHANGED <<storeVars, cmdVars, parseVars, origin, envVars, tokenFile, flowVars, lpc, cfgPort, state,
                   errChan, srvVars, branch, got, ghostVars, loginResult>>

\* ------------------------------------------------- runLogin and SmartLogin
Manual == flagClientID # "" \/ flagPort # DefaultPort

\* runLogin with --client-id or --port: runManualLogin calls Login on the
\* given port (checkPortAvailable only refuses an empty port).
RunManualLogin ==
    /\ spc = "start"
    /\ Manual
    /\ spc' = "manual"
    /\ LoginBegin(flagPort)
    /\ nLogin' = nLogin + 1
    /\ UNCHANGED <<storeVars, cmdVars, parseVars, origin, envVars, tokenFile, idx, probeLn, lastProbe, nProbeOk, nOk,
                   cmdResult>>

ManualReturn ==
    /\ spc = "manual"
    /\ lpc = "returned"
    /\ cmdResult' = IF loginResult.kind = "ok" THEN "ok" ELSE "failed"
    /\ spc' = "done"
    /\ UNCHANGED <<storeVars, cmdVars, parseVars, origin, envVars, tokenFile, idx, probeLn, lastProbe, nProbeOk, nLogin, nOk,
                   lpc, cfgPort, state, chanVars, srvVars, h, branch, got,
                   ghostVars, loginResult>>

\* runLogin without flags: SmartLogin.
RunSmartLogin ==
    /\ spc = "start"
    /\ ~Manual
    /\ spc' = "probe"
    /\ UNCHANGED <<storeVars, cmdVars, parseVars, origin, envVars, tokenFile, idx, probeLn, lastProbe, nProbeOk, nLogin, nOk,
                   cmdResult, lpc, cfgPort, state, chanVars, srvVars, h, branch,
                   got, ghostVars, loginResult>>

\* Mutant of ProbeListen: a candidate whose probe failed is used all the same.
ProbeListenIgnoresFailure(free) ==
    /\ spc = "probe"
    /\ idx <= Len(CommonPorts)
    /\ IF CanBind(CommonPorts[idx], free)
         THEN /\ probeLn' = CommonPorts[idx]
              /\ spc' = "probeClose"
              /\ UNCHANGED <<idx, lastProbe, nProbeOk>>
         ELSE /\ lastProbe' = [idx |-> idx, ok |-> FALSE]
              /\ spc' = "config"
              /\ UNCHANGED <<idx, probeLn, nProbeOk>>
    /\ UNCHANGED <<storeVars, cmdVars, parseVars, origin, envVars, tokenFile, nLogin, nOk, cmdResult, lpc, cfgPort,
                   state, chanVars, srvVars, h, branch, got, ghostVars, loginResult>>

\* isPortAvailable, net.Listen: the probe listener is open, or the port is
\* in use and the loop continues with the next candidate.
ProbeListen(free) ==
    /\ spc = "probe"
    /\ idx <= Len(CommonPorts)
    /\ IF CanBind(CommonPorts[idx], free)
         THEN /\ probeLn' = CommonPorts[idx]
              /\ spc' = "probeClose"
              /\ UNCHANGED <<idx, lastProbe, nProbeOk>>
         ELSE /\ lastProbe' = [idx |-> idx, ok |-> FALSE]
              /\ UNCHANGED nProbeOk
              /\ idx' = idx + 1
              /\ UNCHANGED <<probeLn, spc>>
    /\ UNCHANGED <<storeVars, cmdVars, parseVars, origin, envVars, tokenFile, nLogin, nOk, cmdResult, lpc, cfgPort,
                   state, chanVars, srvVars, h, branch, got, ghostVars, loginResult>>

\* isPortAvailable, ln.Close(): the probe returns true.
ProbeClose ==
    /\ spc = "probeClose"
    /\ probeLn' = 0
    /\ lastProbe' = [idx |-> idx, ok |-> TRUE]
    /\ nProbeOk' = nProbeOk + 1
    /\ spc' = "config"
    /\ UNCHANGED <<storeVars, cmdVars, parseVars, origin, envVars, tokenFile, idx, nLogin, nOk, cmdResult, lpc,
                   cfgPort, state, chanVars, srvVars, h, branch, got, ghostVars,
                   loginResult>>

\* The config for the candidate and the call of Login.
SmartAttempt ==
    /\ spc = "config"
    /\ spc' = "login"
    /\ LoginBegin(CommonPorts[idx])
    /\ nLogin' = nLogin + 1
    /\ UNCHANGED <<storeVars, cmdVars, parseVars, origin, envVars, tokenFile, idx, probeLn, lastProbe, nProbeOk, nOk,
                   cmdResult>>

\* Mutant of SmartAfterLogin: the first failed Login ends the flow.
SmartAfterLoginNoFallback ==
    /\ spc = "login"
    /\ lpc = "returned"
    /\ cmdResult' = IF loginResult.kind = "ok" THEN "ok" ELSE "setupRequired"
    /\ spc' = "done"
    /\ UNCHANGED <<storeVars, cmdVars, parseVars, origin, envVars, tokenFile, idx, probeLn, lastProbe, nProbeOk, nLogin,
                   nOk, lpc, cfgPort, state, chanVars, srvVars, h, branch, got,
                   ghostVars, loginResult>>

\* Login returned to SmartLogin: success ends the flow, a failure moves to
\* the next candidate, a failure on the last one ends with showFallbackHelp.
SmartAfterLogin ==
    /\ spc = "login"
    /\ lpc = "returned"
    /\ IF loginResult.kind = "ok"
         THEN cmdResult' = "ok" /\ spc' = "done" /\ UNCHANGED <<idx, lpc>>
       ELSE IF idx = Len(CommonPorts)
         THEN cmdResult' = "setupRequired" /\ spc' = "done" /\ UNCHANGED <<idx, lpc>>
       ELSE /\ idx' = idx + 1 /\ spc' = "probe" /\ lpc' = "idle"
            /\ UNCHANGED cmdResult
    /\ IF loginResult.kind # "ok" /\ idx < Len(CommonPorts)
         THEN /\ h' = Forgotten
              /\ tokenChan' = <<>>
              /\ errChan' = <<>>
              /\ srv' = "none"
              /\ bound' = FALSE
              /\ got' = NoSignal
              /\ branch' = "none"
         ELSE UNCHANGED <<h, chanVars, srv, bound, got, branch>>
    /\ UNCHANGED <<storeVars, cmdVars, parseVars, origin, envVars, tokenFile, probeLn, lastProbe, nProbeOk, nLogin, nOk, cfgPort,
                   state, shuttingDown, ghostVars, loginResult>>

\* The loop ran out of candidates: "all ports exhausted".
SmartExhausted ==
    /\ spc = "probe"
    /\ idx > Len(CommonPorts)
    /\ cmdResult' = "exhausted"
    /\ spc' = "done"
    /\ UNCHANGED <<storeVars, cmdVars, parseVars, origin, envVars, tokenFile, idx, probeLn, lastProbe, nProbeOk, nLogin, nOk, lpc,
                   cfgPort, state, chanVars, srvVars, h, branch, got, ghostVars,
                   loginResult>>

\* ------------------------------------------------------------------- Next
Next ==
    \/ CtxExpire
    \/ RunManualLogin
    \/ ManualReturn
    \/ RunSmartLogin
    \/ \E free \in BOOLEAN : ProbeListen(free)
    \/ ProbeClose
    \/ SmartAttempt
    \/ SmartAfterLogin
    \/ SmartExhausted
    \/ SelectToken
    \/ SelectErr
    \/ SelectCtx
    \/ ShutdownBegin
    \/ ShutdownReturn
    \/ \E o \in SaveOutcomes : SaveStep(o)
    \/ \E free \in BOOLEAN : SrvListen(free)
    \/ SrvServe
    \/ SrvSendErr
    \/ \E r \in Reqs, st \in ReqStates, er \in ReqErrors, code \in ReqCodes :
          Callback(r, st, er, code)
    \/ \E r \in Reqs, reply \in ExchangeReplies : Exchange(r, reply)
    \/ \E r \in Reqs : SendErr(r)
    \/ \E r \in Reqs : SendTok(r)

Spec == Init /\ [][Next]_vars

\* A single Login call (runManualLogin), with the scheduler's fairness to
\* the main goroutine: a step of Login that stays possible is taken. Nothing
\* is assumed of the handlers, of the token endpoint or of the context.
LoginInit == Init /\ Manual

MainStep ==
    \/ SelectToken
    \/ SelectErr
    \/ SelectCtx
    \/ ShutdownBegin
    \/ ShutdownReturn
    \/ \E o \in SaveOutcomes : SaveStep(o)

NextLogin ==
    \/ CtxExpire
    \/ RunManualLogin
    \/ ManualReturn
    \/ MainStep
    \/ \E free \in BOOLEAN : SrvListen(free)
    \/ SrvServe
    \/ SrvSendErr
    \/ \E r \in Reqs, st \in ReqStates, er \in ReqErrors, code \in ReqCodes :
          Callback(r, st, er, code)
    \/ \E r \in Reqs, reply \in ExchangeReplies : Exchange(r, reply)
    \/ \E r \in Reqs : SendErr(r)
    \/ \E r \in Reqs : SendTok(r)

FairLoginSpec == LoginInit /\ [][NextLogin]_vars /\ WF_vars(MainStep)

\* The manual login with requests from any host that can reach the listener.
NetNext ==
    \/ CtxExpire
    \/ RunManualLogin
    \/ ManualReturn
    \/ MainStep
    \/ \E free \in BOOLEAN : SrvListen(free)
    \/ SrvServe
    \/ SrvSendErr
    \/ \E from \in Origins, r \in Reqs, st \in ReqStates, er \in ReqErrors,
          code \in ReqCodes : CallbackFrom(from, r, st, er, code)
    \/ \E r \in Reqs, reply \in ExchangeReplies : Exchange(r, reply)
    \/ \E r \in Reqs : SendErr(r)
    \/ \E r \in Reqs : SendTok(r)

NetSpec == LoginInit /\ [][NetNext]_vars

\* ============================================================ token store
\* The commands that use the token file, one at a time (logout, the
\* QuickCheck and GetAuthenticatedClient of search / discover / playlists /
\* now, the saveToken of a Login that received its token), next to the
\* loadToken of another moodify process. The login flow itself stays at rest.
StoreInit ==
    /\ LoginAtRest
    /\ flagPort = DefaultPort
    /\ flagClientID = ""
    /\ tokenFile = NoFile
    /\ StoreAtRest
    /\ CmdAtRest
    /\ ParseAtRest
    /\ now \in Times
    /\ disk \in InitialDisks

\* Mutant of QuickCheckValue: a token expiring exactly at the guard passes.
QuickCheckValueInclusive(l, t) ==
    /\ l.err = ""
    /\ ~Before(l.tok.expiry, Add(Time(t, TRUE), QuickCheckGuard))

\* QuickCheck's answer for what loadToken returned, at clock t.
QuickCheckValue(l, t) ==
    /\ l.err = ""
    /\ After(l.tok.expiry, Add(Time(t, TRUE), QuickCheckGuard))

\* QuickCheck: loadToken (getTokenPath, ReadFile, Unmarshal), then the
\* comparison of the expiry.
QuickCheck ==
    /\ mpc = "idle"
    /\ LET d == GetTokenPath(disk)
           l == LoadToken(d)
       IN /\ disk' = d
          /\ mres' = Result("quickCheck", l.err, l.tok, QuickCheckValue(l, now),
                            disk, FALSE, "")
    /\ nRefresh' = 0
    /\ UNCHANGED <<loginVars, parseVars, loggedOut, now, mpc, mop, rres>>

\* deleteToken: getTokenPath, os.Remove; "does not exist" is not an error,
\* any other failure of the removal is (removeFails).
DeleteToken(d, removeFails) ==
    IF removeFails /\ d.file
      THEN [disk |-> d, err |-> "removeFailed"]
      ELSE [disk |-> Remove(d), err |-> ""]

\* Logout: deleteToken, its error returned as it is.
Logout(removeFails) ==
    /\ mpc = "idle"
    /\ LET x == DeleteToken(GetTokenPath(disk), removeFails)
       IN /\ disk' = x.disk
          /\ mres' = Result("logout", x.err, NilToken, FALSE, disk, FALSE, "")
          /\ loggedOut' = (x.err = "" \/ loggedOut)
    /\ nRefresh' = 0
    /\ UNCHANGED <<loginVars, parseVars, now, mpc, mop, rres>>

\* Login received its token (exchangeCodeForToken: the reply's fields, the
\* expiry time.Now() plus expires_in) and calls saveToken.
LoginSave(a, r, e) ==
    /\ mpc = "idle"
    /\ mop' = Op("save", Token(a, r, "Bearer", Add(Time(now, TRUE), e)), NilToken,
                 disk)
    /\ mpc' = "saveOpen"
    /\ nRefresh' = 0
    /\ UNCHANGED <<loginVars, parseVars, loggedOut, now, disk, mres, rres>>

\* What the caller of saveToken returns once saveToken returned err: Login
\* returns the error; GetAuthenticatedClient logs it and returns the client
\* for the refreshed token.
AfterSave(op, err) ==
    IF op.kind = "save"
      THEN Result("save", err, op.tok, FALSE, op.before, FALSE, err)
      ELSE Result("client", "", op.tok, FALSE, op.before, TRUE, err)

\* saveToken: getTokenPath, MarshalIndent, then os.WriteFile opens the file
\* (created or emptied), or fails to.
SaveOpen(fails) ==
    /\ mpc = "saveOpen"
    /\ LET d == GetTokenPath(disk)
       IN IF fails
            THEN /\ disk' = d
                 /\ mres' = AfterSave(mop, "writeFailed")
                 /\ mpc' = "idle"
                 /\ mop' = NoOp
            ELSE /\ disk' = OpenTrunc(d, Mode0600)
                 /\ mpc' = "saveWrite"
                 /\ UNCHANGED <<mop, mres>>
    /\ UNCHANGED <<loginVars, parseVars, loggedOut, now, rres, nRefresh>>

\* os.WriteFile writes the data: all of it, or a part of it and an error.
SaveWrite(n) ==
    /\ mpc = "saveWrite"
    /\ LET data == MarshalIndent(mop.tok)
           d == WriteUpTo(disk, data, n)
       IN /\ n \in 0..Len(data)
          /\ disk' = d
          /\ mres' = AfterSave(mop, IF n = Len(data) THEN "" ELSE "writeFailed")
          /\ loggedOut' = (loggedOut /\ ~(mop.kind = "save" /\ n = Len(data)))
    /\ mpc' = "idle"
    /\ mop' = NoOp
    /\ UNCHANGED <<loginVars, parseVars, now, rres, nRefresh>>

\* Mutant of NeedsRefresh: a token expiring exactly at the lookahead is
\* refreshed too.
NeedsRefreshInclusive(tok, t) == ~After(tok.expiry, Add(Time(t, TRUE), RefreshLookahead))

\* GetAuthenticatedClient: token.Expiry.Before(time.Now().Add(5 * time.Minute))
NeedsRefresh(tok, t) == Before(tok.expiry, Add(Time(t, TRUE), RefreshLookahead))

\* GetAuthenticatedClient up to the refresh: loadToken, its error returned;
\* a token outside the lookahead is used as it is.
ClientLoad ==
    /\ mpc = "idle"
    /\ LET d == GetTokenPath(disk)
           l == LoadToken(d)
       IN /\ disk' = d
          /\ IF l.err # ""
               THEN /\ mres' = Result("client", l.err, NilToken, FALSE, disk, FALSE, "")
                    /\ UNCHANGED <<mpc, mop>>
             ELSE IF NeedsRefresh(l.tok, now)
               THEN /\ mop' = Op("client", NilToken, l.tok, disk)
                    /\ mpc' = "refresh"
                    /\ UNCHANGED mres
             ELSE /\ mres' = Result("client", "", l.tok, FALSE, disk, FALSE, "")
                  /\ UNCHANGED <<mpc, mop>>
    /\ nRefresh' = 0
    /\ UNCHANGED <<loginVars, parseVars, loggedOut, now, rres>>

\* Mutant of RefreshedToken: the reply's refresh token is taken as it is,
\* also when the reply has none.
RefreshedTokenOfReply(old, a, r, e, t) ==
    Token(a, r, "Bearer", Add(Time(t, TRUE), e))

\* refreshToken's token: the reply's fields, the stored refresh token when
\* the reply has none, the expiry time.Now() plus expires_in.
RefreshedToken(old, a, r, e, t) ==
    Token(a, IF r = "" THEN old.refresh ELSE r, "Bearer", Add(Time(t, TRUE), e))

\* Mutant of ClientRefresh: a failed refresh leaves the token file emptied.
ClientRefreshClobbers(reply, a, r, e) ==
    /\ mpc = "refresh"
    /\ IF reply # "ok"
         THEN /\ mres' = Result("client", "refreshFailed", NilToken, FALSE, mop.before,
                                TRUE, "")
              /\ disk' = OpenTrunc(disk, Mode0600)
              /\ mpc' = "idle"
              /\ mop' = NoOp
         ELSE /\ mop' = [mop EXCEPT !.tok = RefreshedToken(mop.old, a, r, e, now)]
              /\ mpc' = "saveOpen"
              /\ UNCHANGED <<mres, disk>>
    /\ nRefresh' = nRefresh + 1
    /\ UNCHANGED <<loginVars, parseVars, loggedOut, now, rres>>

\* Mutant of ClientRefresh: a failed refresh call is made once more.
ClientRefreshRetries(reply, a, r, e) ==
    /\ mpc = "refresh"
    /\ IF reply # "ok" /\ nRefresh = 0
         THEN UNCHANGED <<mres, mpc, mop>>
         ELSE IF reply # "ok"
           THEN /\ mres' = Result("client", "refreshFailed", NilToken, FALSE,
                                  mop.before, TRUE, "")
                /\ mpc' = "idle"
                /\ mop' = NoOp
           ELSE /\ mop' = [mop EXCEPT !.tok = RefreshedToken(mop.old, a, r, e, now)]
                /\ mpc' = "saveOpen"
                /\ UNCHANGED mres
    /\ nRefresh' = nRefresh + 1
    /\ UNCHANGED <<loginVars, parseVars, loggedOut, now, disk, rres>>

\* refreshToken returned: on an error GetAuthenticatedClient returns it, on
\* a token it goes on to saveToken.
ClientRefresh(reply, a, r, e) ==
    /\ mpc = "refresh"
    /\ IF reply # "ok"
         THEN /\ mres' = Result("client", "refreshFailed", NilToken, FALSE, mop.before,
                                TRUE, "")
              /\ mpc' = "idle"
              /\ mop' = NoOp
         ELSE /\ mop' = [mop EXCEPT !.tok = RefreshedToken(mop.old, a, r, e, now)]
              /\ mpc' = "saveOpen"
              /\ UNCHANGED mres
    /\ nRefresh' = nRefresh + 1
    /\ UNCHANGED <<loginVars, parseVars, loggedOut, now, disk, rres>>

\* loadToken in another moodify process, at any moment.
OtherLoad ==
    /\ LET d == GetTokenPath(disk)
       IN /\ disk' = d
          /\ rres' = Read(TRUE, LoadToken(d).err, mpc = "saveWrite",
                          \/ mpc # "saveWrite"
                          \/ d.file = mop.before.file /\ d.data = mop.before.data
                          \/ d.data = MarshalIndent(mop.tok))
    /\ UNCHANGED <<loginVars, parseVars, loggedOut, now, mpc, mop, mres, nRefresh>>

StoreNext ==
    \/ QuickCheck /\ UNCHANGED cmdVars
    \/ \E f \in BOOLEAN : Logout(f) /\ UNCHANGED cmdVars
    \/ \E a \in AccessTokens, r \in RefreshTokens, e \in ExpiresIn :
          LoginSave(a, r, e) /\ UNCHANGED cmdVars
    \/ \E f \in BOOLEAN : SaveOpen(f) /\ UNCHANGED cmdVars
    \/ \E n \in WriteLengths : SaveWrite(n) /\ UNCHANGED cmdVars
    \/ ClientLoad /\ UNCHANGED cmdVars
    \/ \E reply \in ExchangeReplies, a \in AccessTokens, r \in RefreshTokens,
          e \in ExpiresIn : ClientRefresh(reply, a, r, e) /\ UNCHANGED cmdVars
    \/ OtherLoad /\ UNCHANGED cmdVars

StoreSpec == StoreInit /\ [][StoreNext]_vars

\* ======================================================= session commands
\* search, discover, now and playlists: each begins with the same two calls,
\* QuickCheck and then GetAuthenticatedClient, and goes on to the Spotify API
\* with the client. Next to them, in other processes, logout and the
\* saveToken of a login.
Commands == {"search", "discover", "now", "playlists"}

\* Mutant of CommandGate: the command goes on to GetAuthenticatedClient
\* whatever QuickCheck answered.
CommandGateOpen(c) ==
    /\ sess.pc \in {"idle", "done"}
    /\ QuickCheck
    /\ sess' = [cmd |-> c, pc |-> "client", gate |-> mres'.yes, client |-> FALSE,
                out |-> ""]

\* runSearch / runDiscover / runNow / runPlaylists up to the return after
\* QuickCheck: false is the "not authenticated" error, true goes on.
CommandGate(c) ==
    /\ sess.pc \in {"idle", "done"}
    /\ QuickCheck
    /\ sess' = IF mres'.yes
                THEN [cmd |-> c, pc |-> "client", gate |-> TRUE, client |-> FALSE,
                      out |-> ""]
                ELSE [cmd |-> c, pc |-> "done", gate |-> FALSE, client |-> FALSE,
                      out |-> "notAuthenticated"]

\* The command while GetAuthenticatedClient runs and once it has returned:
\* its error is returned as an authentication failure, with the client the
\* command goes on.
InClient ==
    IF mpc' # "idle"
      THEN [sess EXCEPT !.pc = "inClient", !.client = TRUE]
      ELSE [sess EXCEPT !.pc = "done", !.client = TRUE,
                        !.out = IF mres'.err = "" THEN "proceeds" ELSE "authFailed"]

\* The command's GetAuthenticatedClient call, step by step.
CommandClient ==
    /\ sess.pc = "client"
    /\ ClientLoad
    /\ sess' = InClient

CommandRefresh(reply, a, r, e) ==
    /\ sess.pc = "inClient"
    /\ ClientRefresh(reply, a, r, e)
    /\ sess' = InClient

CommandSaveOpen(fails) ==
    /\ sess.pc = "inClient"
    /\ SaveOpen(fails)
    /\ sess' = InClient

CommandSaveWrite(n) ==
    /\ sess.pc = "inClient"
    /\ SaveWrite(n)
    /\ sess' = InClient

\* The saveToken of a login command, in another process.
LoginSaveOpen(fails) ==
    /\ mop.kind = "save"
    /\ SaveOpen(fails)
    /\ UNCHANGED cmdVars

LoginSaveWrite(n) ==
    /\ mop.kind = "save"
    /\ SaveWrite(n)
    /\ UNCHANGED cmdVars

CommandNext ==
    \/ \E c \in Commands : CommandGate(c)
    \/ CommandClient
    \/ \E reply \in ExchangeReplies, a \in AccessTokens, r \in RefreshTokens,
          e \in ExpiresIn : CommandRefresh(reply, a, r, e)
    \/ \E f \in BOOLEAN : CommandSaveOpen(f)
    \/ \E n \in WriteLengths : CommandSaveWrite(n)
    \/ \E f \in BOOLEAN : Logout(f) /\ UNCHANGED cmdVars
    \/ \E a \in AccessTokens, r \in RefreshTokens, e \in ExpiresIn :
          LoginSave(a, r, e) /\ UNCHANGED cmdVars
    \/ \E f \in BOOLEAN : LoginSaveOpen(f)
    \/ \E n \in WriteLengths : LoginSaveWrite(n)

CommandSpec == StoreInit /\ [][CommandNext]_vars

\* ============================================================ query parser
\* SimpleParse (package ai), the parser of search queries that runs without
\* the hosted model. A query is the set of the words below that its
\* lower-cased text contains (strings.Contains). Filters keeps the fields
\* these words set; the fractions are in tenths.
GenreKeywords == {"rock", "jazz", "pop", "hip hop", "hip-hop"}
Vocabulary == GenreKeywords \cup {"chill", "90s"}

\* genreMap: the keyword and the Spotify genre it stands for.
GenreMap(k) == IF k = "hip hop" THEN "hip-hop" ELSE k

MaxGenres == 3

\* The orders in which a range over genreMap can visit the keywords S: the
\* iteration order of a Go map is not specified and differs from one range
\* to the next, so each call has its own.
IterationOrders(S) ==
    {o \in [1..Cardinality(S) -> S] : \A i, j \in 1..Cardinality(S) : o[i] = o[j] => i = j}

\* "dedupe & cap at 3": the first occurrences, in order, until out has three.
RECURSIVE Dedupe(_, _)
Dedupe(gs, out) ==
    IF gs = <<>> \/ Len(out) = MaxGenres THEN out
    ELSE IF \E i \in 1..Len(out) : out[i] = Head(gs) THEN Dedupe(Tail(gs), out)
    ELSE Dedupe(Tail(gs), Append(out, Head(gs)))

Filters(genres, maxEnergy, maxDanceability, yearStart, yearEnd) ==
    [genres |-> genres, maxEnergy |-> maxEnergy, maxDanceability |-> maxDanceability,
     yearStart |-> yearStart, yearEnd |-> yearEnd]

\* SimpleParse on query q when the range over genreMap visits the keywords
\* in the order o: the rough keywords, the era, the genres of the keywords
\* the query contains in the order visited, then dedupe and cap.
SimpleParse(q, o) ==
    LET chill == "chill" \in q
        era == "90s" \in q
        rough == IF chill THEN <<"chill", "ambient">> ELSE <<>>
        hits == SelectSeq(o, LAMBDA k : k \in q)
        found == [i \in 1..Len(hits) |-> GenreMap(hits[i])]
    IN Filters(Dedupe(rough \o found, <<>>),
               IF chill THEN 6 ELSE 10,
               IF chill THEN 7 ELSE 10,
               IF era THEN 1990 ELSE 0,
               IF era THEN 1999 ELSE 0)

\* The calls compared.
MaxCalls == 2

ParseInit ==
    /\ LoginAtRest
    /\ flagPort = DefaultPort
    /\ flagClientID = ""
    /\ tokenFile = NoFile
    /\ StoreAtRest
    /\ now = 0
    /\ disk = NoDir
    /\ CmdAtRest
    /\ query \in SUBSET Vocabulary
    /\ parsed = <<>>

\* One call of SimpleParse on the query.
SimpleParseCall(o) ==
    /\ Len(parsed) < MaxCalls
    /\ parsed' = Append(parsed, SimpleParse(query, o))
    /\ UNCHANGED <<loginVars, storeVars, cmdVars, query>>

ParseNext == \E o \in IterationOrders(GenreKeywords) : SimpleParseCall(o)

ParseSpec == ParseInit /\ [][ParseNext]_vars

\* ================================================================= claims
\* An error of the given kind is on its way to the select: held by a handler
\* that has not sent it yet, or lying in errChan.
Offered(kind) ==
    \/ \E r \in Reqs : Active(r) /\ h[r].sig.kind = kind
    \/ \E i \in 1..Len(errChan) : errChan[i].kind = kind

Returned == lpc = "returned"

\* ---------------------------------------------------------------------- C1
\* C1 as claimed: every callback request whose state differs from the
\* attempt's gets 400 and no exchange, and the attempt ends with the
\* invalid-state failure.
C1_AsClaimed ==
    /\ \A r \in Reqs : Active(r) /\ h[r].st # state =>
          /\ h[r].pc = "sendErr"
          /\ h[r].resp = StatusBadRequest
          /\ h[r].sig.kind = "invalidState"
    /\ Returned /\ (Offered("invalidState") \/ got.err.kind = "invalidState")
          => loginResult.kind = "invalidState"

\* C1 as amended: every callback request whose state differs from the
\* attempt's gets 400, makes no exchange call and offers the invalid-state
\* failure on errChan; when the select receives that failure, Login returns
\* it and leaves the token file alone.
C1_StateMismatch ==
    /\ \A r \in Reqs : Active(r) /\ h[r].st # state =>
          /\ h[r].pc = "sendErr"
          /\ h[r].resp = StatusBadRequest
          /\ h[r].sig = Sig("invalidState", "")
          /\ h[r].nx = 0
          /\ h[r].tok = 0
    /\ Returned /\ got.err.kind = "invalidState" =>
          /\ loginResult = Sig("invalidState", "")
          /\ nWrites = 0
          /\ tokenFile = fileAtStart

C1_Witness ==
    /\ Returned
    /\ loginResult.kind = "invalidState"
    /\ nExch = 0

\* ---------------------------------------------------------------------- C2
\* C2: at most one token exchange call is made per Login attempt.
C2_AtMostOneExchange == nExch <= 1

\* ---------------------------------------------------------------------- C3
\* C3 as claimed: every callback request with the attempt's state and an
\* error parameter gets 400 and no exchange, with or without a code, and the
\* attempt fails with the authorization error.
C3_AsClaimed ==
    /\ \A r \in Reqs : Active(r) /\ h[r].st = state /\ h[r].er # "" =>
          /\ h[r].pc = "sendErr"
          /\ h[r].resp = StatusBadRequest
          /\ h[r].sig = Sig("authError", h[r].er)
    /\ Returned /\ (Offered("authError") \/ got.err.kind = "authError")
          => loginResult.kind = "authError"

\* C3 as amended: every callback request with the attempt's state and an
\* error parameter gets 400, makes no exchange call, with or without a code,
\* and offers the authorization error with the provider's error on errChan;
\* when the select receives it, Login returns it and leaves the token file
\* alone.
C3_AuthorizationError ==
    /\ \A r \in Reqs : Active(r) /\ h[r].st = state /\ h[r].er # "" =>
          /\ h[r].pc = "sendErr"
          /\ h[r].resp = StatusBadRequest
          /\ h[r].sig = Sig("authError", h[r].er)
          /\ h[r].nx = 0
          /\ h[r].tok = 0
    /\ Returned /\ got.err.kind = "authError" =>
          /\ loginResult = got.err
          /\ loginResult.det \in ReqErrors \ {""}
          /\ nWrites = 0
          /\ tokenFile = fileAtStart

C3_Witness ==
    /\ Returned
    /\ loginResult = Sig("authError", "access_denied")
    /\ nExch = 0

\* ---------------------------------------------------------------------- C4
\* C4 as claimed: after a failed exchange the handler answers 500, Login
\* returns the exchange failure, no token is written and no second exchange
\* is made in the attempt.
C4_AsClaimed ==
    /\ \A r \in Reqs : Active(r) /\ h[r].sig.kind = "exchangeFailed" =>
          h[r].pc = "sendErr" /\ h[r].resp = StatusInternalServerError
    /\ Returned /\ (Offered("exchangeFailed") \/ got.err.kind = "exchangeFailed") =>
          /\ loginResult.kind = "exchangeFailed"
          /\ nWrites = 0
          /\ nExch = 1

\* C4 as amended: after a failed exchange the handler answers 500 (and 500
\* is answered for nothing else), offers the exchange failure on errChan and
\* makes no second exchange call for its request; when the select receives
\* that failure, Login returns it and no token is written.
C4_ExchangeFailure ==
    /\ \A r \in Reqs : Active(r) =>
          /\ h[r].nx <= 1
          /\ (h[r].nx = 1 => h[r].pc \in {"sendErr", "sendTok"})
          /\ (h[r].sig.kind = "exchangeFailed" <=> h[r].nx = 1 /\ h[r].pc = "sendErr")
          /\ (h[r].sig.kind = "exchangeFailed" <=> h[r].resp = StatusInternalServerError)
          /\ (h[r].sig.kind = "exchangeFailed" => h[r].tok = 0)
    /\ Returned /\ got.err.kind = "exchangeFailed" =>
          /\ loginResult = Sig("exchangeFailed", "")
          /\ nWrites = 0
          /\ tokenFile = fileAtStart

C4_Witness ==
    /\ Returned
    /\ loginResult.kind = "exchangeFailed"
    /\ nExch = 1
    /\ nWrites = 0

\* ---------------------------------------------------------------------- C5
ErrorKinds == {"invalidState", "authError", "noCode", "exchangeFailed", "serverError"}

\* C5 as claimed: Login returns on exactly one select case, after
\* server.Shutdown, and from then on the process does not hold the port.
C5_AsClaimed ==
    Returned =>
      /\ branch \in {"token", "err", "ctx"}
      /\ shuttingDown
      /\ ~bound

\* C5 as amended: Login returns on exactly one select case, after
\* server.Shutdown was called; from then on no listener accepts requests,
\* and the port is held at most by a server goroutine that bound it after
\* Shutdown and releases it as soon as it reaches Serve: once the server
\* goroutine has returned, the port is free.
C5_ShutdownOnEveryOutcome ==
    /\ lpc \in {"shutdownWait", "save", "returned"} => shuttingDown /\ srv # "serving"
    /\ Returned =>
          /\ branch \in {"token", "err", "ctx"}
          /\ (branch = "token" <=> loginResult.kind \in {"ok", "saveFailed"})
          /\ (branch = "err" <=> loginResult.kind \in ErrorKinds)
          /\ (branch = "ctx" <=> loginResult.kind = "cancelled")
          /\ (bound => srv = "listening")
          /\ (ServerGone => ~bound)

C5_Witness ==
    /\ Returned
    /\ branch = "token"
    /\ srv = "closed"
    /\ ~bound

\* ---------------------------------------------------------------------- C6
\* C6: once Login's select has taken a case nobody receives from the two
\* channels any more, so no handler may then wait to send on a full slot.
C6_NoBlockedSender ==
    branch # "none" =>
      \A r \in Reqs :
        /\ (h[r].pc = "sendErr" => Len(errChan) < ChanCap)
        /\ (h[r].pc = "sendTok" => Len(tokenChan) < ChanCap)

\* ---------------------------------------------------------------------- C7
\* C7 as claimed: no attempt writes the token file once its context is
\* done, and a Login that returns the cancelled error has shut the listener
\* down and left the file unchanged.
C7_AsClaimed ==
    /\ ~cancelledAtWrite
    /\ Returned /\ loginResult.kind = "cancelled" =>
          shuttingDown /\ nWrites = 0 /\ tokenFile = fileAtStart

\* C7 as amended: a Login whose select takes the cancel case shuts the
\* listener down, returns the cancelled error and leaves the token file
\* unchanged, and only the token case ever writes the file (it does so even
\* when the context is done by then).
C7_CancelWritesNothing ==
    /\ branch = "ctx" => ctxDone /\ nWrites = 0 /\ tokenFile = fileAtStart
    /\ nWrites > 0 /\ lpc # "idle" => branch = "token" /\ Returned
    /\ Returned /\ branch = "ctx" => loginResult = Sig("cancelled", "")
    /\ Returned /\ loginResult.kind = "cancelled" =>
          /\ branch = "ctx"
          /\ shuttingDown
          /\ nWrites = 0
          /\ tokenFile = fileAtStart

C7_Witness ==
    /\ Returned
    /\ loginResult.kind = "cancelled"
    /\ tokenChan # <<>>
    /\ tokenFile = fileAtStart

\* ---------------------------------------------------------------------- C8
\* C8: under fair scheduling of the main goroutine, once the context of a
\* running Login is done, Login eventually returns, whatever the handlers
\* are doing and whichever select case was or will be taken.
C8_ContextBoundsLogin ==
    (ctxDone /\ lpc \in {"select", "shutdown", "shutdownWait", "save"}) ~> Returned

C8_Witness ==
    /\ ctxDone
    /\ Returned
    /\ branch = "token"
    /\ \E r \in Reqs : h[r].pc = "exchange"

\* ---------------------------------------------------------------------- C9
Smart == spc \notin {"start", "manual"} /\ ~Manual

C9_Inv ==
    Smart =>
      /\ CommonPorts = <<8808, 8080, 3000, 8000, 9000>>
      /\ nOk <= 1
      /\ nLogin <= idx
      /\ idx <= Len(CommonPorts) + 1
      /\ lpc # "idle" => idx <= Len(CommonPorts) /\ cfgPort = CommonPorts[idx]
      /\ nOk = 1 => Returned /\ loginResult.kind = "ok" /\ spc \in {"login", "done"}
      /\ spc = "done" =>
            /\ cmdResult \in {"ok", "setupRequired", "exhausted"}
            /\ cmdResult = "ok" <=> nOk = 1
            /\ cmdResult = "setupRequired" =>
                  idx = Len(CommonPorts) /\ Returned /\ loginResult.kind # "ok"
      /\ spc # "done" => cmdResult = "none"

C9_Step ==
    Smart =>
      /\ idx' \in {idx, idx + 1}
      /\ nLogin' # nLogin =>
            /\ nLogin' = nLogin + 1
            /\ nOk = 0
            /\ cfgPort' = CommonPorts[idx]
            /\ idx' = idx
      /\ spc = "login" /\ Returned /\ spc' # "login" =>
            /\ loginResult.kind = "ok" => spc' = "done" /\ cmdResult' = "ok"
            /\ loginResult.kind # "ok" /\ idx < Len(CommonPorts) =>
                  spc' = "probe" /\ idx' = idx + 1 /\ cmdResult' = "none"
            /\ loginResult.kind # "ok" /\ idx = Len(CommonPorts) =>
                  spc' = "done" /\ cmdResult' = "setupRequired"
      /\ spc = "done" => spc' = "done" /\ nLogin' = nLogin /\ cmdResult' = cmdResult

\* C9: SmartLogin goes through CommonPorts in the order 8808, 8080, 3000,
\* 8000, 9000, with at most one Login per candidate; the first Login that
\* succeeds ends the flow with success and no later Login is begun; a failed
\* Login moves the flow to the next candidate, and a failed Login on the
\* last candidate ends the flow with an error; the flow ends with success
\* exactly when one of its Logins succeeded.
C9_PortsInOrder == [](C9_Inv) /\ [][C9_Step]_vars

C9_Witness ==
    /\ Smart
    /\ spc = "done"
    /\ cmdResult = "ok"
    /\ idx = 3
    /\ nLogin = 2
    /\ cfgPort = 3000

\* --------------------------------------------------------------------- C10
C10_Inv ==
    /\ probeLn # 0 =>
          /\ spc = "probeClose"
          /\ probeLn = CommonPorts[idx]
          /\ ~bound
          /\ srv = "none"
          /\ lpc = "idle"
    /\ Smart /\ lpc # "idle" => lastProbe = [idx |-> idx, ok |-> TRUE] /\ probeLn = 0
    /\ Smart => nLogin <= nProbeOk
    /\ Smart /\ spc = "done" /\ nProbeOk = 0 => cmdResult = "exhausted" /\ nLogin = 0
    /\ cmdResult = "exhausted" => idx = Len(CommonPorts) + 1 /\ lpc = "idle"

C10_Step ==
    Smart =>
      /\ idx' # idx =>
            \/ spc = "probe" /\ lastProbe' = [idx |-> idx, ok |-> FALSE]
            \/ spc = "login" /\ Returned /\ loginResult.kind # "ok"
      /\ nLogin' # nLogin =>
            /\ spc = "config"
            /\ lastProbe = [idx |-> idx, ok |-> TRUE]
            /\ probeLn = 0
            /\ cfgPort' = CommonPorts[idx]
      /\ spc = "probe" /\ spc' = "done" => cmdResult' = "exhausted"

\* C10: the Login of a candidate is begun only after that candidate's probe
\* bind succeeded and the probe listener was closed, a candidate is passed
\* over only when its probe failed (or its Login did), never is a Login
\* begun on a candidate whose probe failed, and when every probe fails the
\* flow ends with the "all ports exhausted" error and no Login.
C10_ProbeBeforeLogin == [](C10_Inv) /\ [][C10_Step]_vars

C10_Witness ==
    /\ spc = "login"
    /\ idx = 2
    /\ cfgPort = 8080
    /\ lastProbe = [idx |-> 2, ok |-> TRUE]
    /\ nProbeOk = 1
    /\ nLogin = 1

\* --------------------------------------------------------------------- C11
BindFailed == srv \in {"bindFailed", "failed"}

C11_Inv ==
    /\ BindFailed =>
          /\ ~bound
          /\ nExch = 0
          /\ nWrites = 0
          /\ \A r \in Reqs : ~Active(r)
    /\ srv = "bindFailed" => Len(errChan) < ChanCap /\ ENABLED SrvSendErr
    /\ srv = "failed" /\ lpc = "select" => errChan = <<Sig("serverError", "")>>
    /\ srv = "failed" /\ lpc \in {"select", "shutdown", "shutdownWait"} =>
          ENABLED MainStep
    /\ BindFailed /\ lpc \in {"shutdown", "shutdownWait"} =>
          /\ branch \in {"err", "ctx"}
          /\ branch = "err" => got.err = Sig("serverError", "")
    /\ BindFailed /\ Returned =>
          /\ loginResult.kind \in {"serverError", "cancelled"}
          /\ loginResult.kind = "serverError" <=> branch = "err"

C11_Step ==
    Smart /\ BindFailed /\ spc = "login" /\ Returned /\ spc' # "login" =>
      IF idx < Len(CommonPorts)
        THEN spc' = "probe" /\ idx' = idx + 1 /\ cmdResult' = "none"
        ELSE spc' = "done" /\ cmdResult' = "setupRequired"

\* C11: when the callback listener's bind fails on a candidate whose probe
\* had passed, no request is served and nothing is exchanged or written, the
\* server goroutine's send of the error never blocks, the select and the
\* shutdown that follow can always proceed, Login returns a failure (the
\* server error when the select received it), and SmartLogin then moves to
\* the next candidate, or ends with its error after the last one.
C11_BindRaceTolerated == [](C11_Inv) /\ [][C11_Step]_vars

C11_Witness ==
    /\ Smart
    /\ spc = "probe"
    /\ idx = 2
    /\ lastProbe = [idx |-> 1, ok |-> TRUE]
    /\ loginResult = Sig("serverError", "")
    /\ nLogin = 1

\* --------------------------------------------------------------------- C12
\* The last operation made a saveToken call that returned nil (the
\* saveToken of Login, or the one of GetAuthenticatedClient after a
\* refresh), and nothing has touched the file since.
Saved ==
    /\ mpc = "idle"
    /\ mres.kind \in {"save", "client"}
    /\ mres.kind = "client" => mres.refreshed
    /\ mres.err = ""
    /\ mres.saveErr = ""

\* C12: after a successful saveToken, loadToken returns a record whose
\* access token, refresh token and token type are those saved and whose
\* expiry is the same instant, and the file holds the text of the saved
\* record and nothing of what was at the path before.
C12_SaveLoadRoundTrip ==
    Saved =>
      /\ LoadToken(disk).err = ""
      /\ LoadToken(disk).tok.access = mres.tok.access
      /\ LoadToken(disk).tok.refresh = mres.tok.refresh
      /\ LoadToken(disk).tok.type = mres.tok.type
      /\ LoadToken(disk).tok.expiry.wall = mres.tok.expiry.wall
      /\ mres.tok.access \in AccessTokens
      /\ mres.tok.expiry.wall \in {now + e : e \in ExpiresIn}
      /\ disk.file
      /\ Len(disk.data) = 6
      /\ \A i \in 1..Len(disk.data) :
            disk.data[i].s \notin {StoredToken.access, StoredToken.refresh}
              \/ disk.data[i].s = mres.tok.refresh

C12_Witness ==
    /\ Saved
    /\ mres.kind = "save"
    /\ mres.before.file
    /\ mres.before.data = MarshalIndent(StoredToken)
    /\ mres.tok.refresh = "r1"
    /\ LoadToken(disk).tok = Token("a1", "r1", "Bearer", Time(now + 3600, FALSE))

\* --------------------------------------------------------------------- C13
\* C13: whenever the token file exists after a successful saveToken, its
\* mode is 0600, whatever was at the path before.
C13_OwnerOnlyAfterSave ==
    Saved /\ disk.file => disk.mode = Mode0600

\* --------------------------------------------------------------------- C14
\* C14: Logout succeeds with the file present and with the file absent
\* (its only error is a removal that failed on a present file), a second
\* Logout changes nothing, and from a successful Logout until the next
\* successful Login loadToken fails with "no token found" and QuickCheck
\* answers false.
C14_LogoutIdempotent ==
    /\ mres.kind = "logout" /\ mres.err # "" => mres.before.file
    /\ mres.kind = "logout" /\ mres.err = "" /\ mpc = "idle" =>
          /\ ~disk.file
          /\ DeleteToken(GetTokenPath(disk), FALSE) = [disk |-> disk, err |-> ""]
    /\ loggedOut /\ mpc = "idle" =>
          /\ LoadToken(disk).err = "notFound"
          /\ ~QuickCheckValue(LoadToken(disk), now)

\* The parts of C14 that do not depend on how saveToken writes: Logout's
\* result, the second Logout, and the state right after a Logout.
C14_LogoutItself ==
    /\ mres.kind = "logout" /\ mres.err # "" => mres.before.file
    /\ mres.kind = "logout" /\ mres.err = "" /\ mpc = "idle" =>
          /\ ~disk.file
          /\ DeleteToken(GetTokenPath(disk), FALSE) = [disk |-> disk, err |-> ""]
          /\ LoadToken(disk).err = "notFound"
          /\ ~QuickCheckValue(LoadToken(disk), now)
    /\ loggedOut /\ mpc = "idle" => ~QuickCheckValue(LoadToken(disk), now)

\* --------------------------------------------------------------------- C15
\* C15: a loadToken that runs while a saveToken is under way reads the
\* content the file had before that saveToken, or the content it writes.
C15_NoTornRead == rres.done => rres.whole

\* --------------------------------------------------------------------- C16
\* C16: QuickCheck answers true exactly when the token file held a complete
\* record whose expiry is more than one minute after the clock: false with
\* no file, with a malformed file, and for the stored record (expiry 600)
\* when it is past (clock 660), 30 seconds ahead (570) and exactly one
\* minute ahead (540); true when it is ten minutes ahead (clock 0).
C16_QuickCheckGuard ==
    mres.kind = "quickCheck" =>
      /\ mres.yes <=>
            /\ mres.before.file
            /\ WellFormed(mres.before.data)
            /\ Unmarshal(mres.before.data).expiry.wall > now + 60
      /\ mres.yes => mres.err = ""
      /\ ~mres.before.file => ~mres.yes /\ mres.err = "notFound"
      /\ mres.before.data = TruncatedData => ~mres.yes /\ mres.err = "unmarshal"
      /\ mres.before.data = MarshalIndent(StoredToken) =>
            /\ now = 660 => ~mres.yes
            /\ now = 570 => ~mres.yes
            /\ now = 540 => ~mres.yes
            /\ now = 0 => mres.yes

C16_Witness ==
    /\ mres.kind = "quickCheck"
    /\ mres.before.data = MarshalIndent(StoredToken)
    /\ now = 540
    /\ ~mres.yes
    /\ mres.err = ""

\* --------------------------------------------------------------------- C17
\* C17: a call of QuickCheck leaves the config directory and the token file
\* as they were and calls no token endpoint.
C17_QuickCheckFrame ==
    mpc = "idle" /\ mres.kind = "quickCheck" =>
      /\ disk = mres.before
      /\ ~mres.refreshed

\* --------------------------------------------------------------------- C18
\* The record GetAuthenticatedClient loaded was complete and expires less
\* than five minutes after the clock.
ExpiringAt(d, t) ==
    /\ d.file
    /\ WellFormed(d.data)
    /\ Unmarshal(d.data).expiry.wall < t + 300

\* C18: GetAuthenticatedClient calls the token endpoint with the refresh
\* grant exactly when the loaded record's expiry is earlier than the clock
\* plus five minutes: for the stored record (expiry 600) it does at clock
\* 360 (four minutes ahead) and 660 (expired), it does not at clock 0 (ten
\* minutes ahead) and 300 (exactly five minutes); with no token file it
\* fails with "no token found" and makes no call.
C18_RefreshLookahead ==
    /\ mpc = "refresh" => mop.kind = "client" /\ ExpiringAt(mop.before, now)
    /\ mpc = "saveOpen" /\ mop.kind = "client" => ExpiringAt(mop.before, now)
    /\ mres.kind = "client" =>
          /\ mres.refreshed <=> ExpiringAt(mres.before, now)
          /\ ~mres.before.file => mres.err = "notFound" /\ ~mres.refreshed
          /\ ~mres.refreshed /\ mres.err = "" =>
                mres.tok = Unmarshal(mres.before.data) /\ mres.saveErr = ""
          /\ mres.before.data = MarshalIndent(StoredToken) =>
                /\ now \in {360, 660} => mres.refreshed
                /\ now \in {0, 300} => ~mres.refreshed /\ mres.tok = StoredToken

C18_Witness ==
    /\ mres.kind = "client"
    /\ mres.before.data = MarshalIndent(StoredToken)
    /\ now = 360
    /\ mres.refreshed
    /\ mres.err = ""

\* --------------------------------------------------------------------- C19
\* C19: when the refresh call fails, GetAuthenticatedClient returns an
\* error and no client, makes no saveToken call, and the token file is as it
\* was before the call.
C19_FailedRefreshKeepsFile ==
    mres.kind = "client" /\ mres.err = "refreshFailed" =>
      /\ mres.tok = NilToken
      /\ mres.refreshed
      /\ mres.saveErr = ""
      /\ mpc = "idle" => disk = mres.before
      /\ mres.before.file /\ WellFormed(mres.before.data)
      /\ mpc = "idle" =>
            LoadToken(disk).tok.refresh = Unmarshal(mres.before.data).refresh

C19_Witness ==
    /\ mpc = "idle"
    /\ mres.kind = "client"
    /\ mres.err = "refreshFailed"
    /\ disk.data = MarshalIndent(StoredToken)
    /\ now = 660

\* --------------------------------------------------------------------- C20
\* C20: when the refresh succeeds and saveToken fails, GetAuthenticatedClient
\* returns the client for the refreshed token and the token file keeps the
\* content it had before the call.
C20_FailedSaveKeepsFile ==
    mpc = "idle" /\ mres.kind = "client" /\ mres.refreshed /\ mres.err = ""
      /\ mres.saveErr # "" =>
      /\ mres.tok.access \in AccessTokens
      /\ disk.file = mres.before.file
      /\ disk.data = mres.before.data

\* The part of C20 that does not depend on how saveToken writes: the
\* failed save is not fatal and the client is bound to the refreshed token.
C20_SaveFailureNotFatal ==
    mres.kind = "client" /\ mres.refreshed /\ mres.err = "" =>
      /\ mres.tok.access \in AccessTokens
      /\ mres.tok.refresh \in {"r1", Unmarshal(mres.before.data).refresh}
      /\ mres.tok.expiry \in {Time(now + e, TRUE) : e \in ExpiresIn}

\* --------------------------------------------------------------------- C21
\* A Login received its token, with a lifetime of more than a minute, where
\* no token file was, and its saveToken returned nil: Login returned nil.
FirstLogin ==
    /\ Saved
    /\ mres.kind = "save"
    /\ ~mres.before.file
    /\ mres.tok.expiry.wall > now + QuickCheckGuard

C21_Inv ==
    /\ mres.kind = "quickCheck" /\ ~mres.before.file => ~mres.yes
    /\ FirstLogin =>
         /\ disk.file
         /\ disk.mode = Mode0600
         /\ LoadToken(disk).err = ""
         /\ QuickCheckValue(LoadToken(disk), now)

C21_Step ==
    FirstLogin /\ mres'.kind = "quickCheck" =>
      /\ mres'.yes
      /\ mres'.tok.access = mres.tok.access
      /\ disk'.mode = Mode0600

ClientAtTwoMinutes ==
    /\ mpc = "idle"
    /\ mres.kind = "client"
    /\ mres.before.file
    /\ WellFormed(mres.before.data)
    /\ Unmarshal(mres.before.data).expiry.wall = now + 120

\* C22: a GetAuthenticatedClient call on a token file whose record expires
\* two minutes ahead makes exactly one refresh call; when the refresh
\* succeeds the client's token is the endpoint's access token with the
\* expiry at the clock reading plus expires_in, and when the save succeeds
\* too the file holds that record.
C22_OneRefresh ==
    /\ mpc = "refresh" => nRefresh = 0
    /\ mpc \in {"saveOpen", "saveWrite"} /\ mop.kind = "client" => nRefresh = 1
    /\ ClientAtTwoMinutes =>
         /\ mres.refreshed
         /\ nRefresh = 1
         /\ mres.err = "" =>
              /\ mres.tok.access \in AccessTokens
              /\ mres.tok.expiry \in {Time(now + e, TRUE) : e \in ExpiresIn}
              /\ mres.saveErr = "" =>
                   /\ LoadToken(disk).err = ""
                   /\ LoadToken(disk).tok.access = mres.tok.access
                   /\ LoadToken(disk).tok.expiry.wall = mres.tok.expiry.wall

C22_Witness ==
    /\ ClientAtTwoMinutes
    /\ Saved
    /\ nRefresh = 1
    /\ mres.before.data = MarshalIndent(StoredToken)
    /\ LoadToken(disk).tok.access = "a2"
    /\ LoadToken(disk).tok.expiry.wall = now + 3600

\* --------------------------------------------------------------------- C23
\* The session command has returned the "not authenticated" error.
NotAuthenticated == sess.pc = "done" /\ sess.out = "notAuthenticated"

C23_Inv ==
    /\ sess.cmd # "none" /\ sess.pc \in {"client", "inClient"} => sess.gate
    /\ sess.client => sess.gate
    /\ sess.pc = "done" /\ ~sess.gate => NotAuthenticated /\ ~sess.client
    /\ NotAuthenticated => ~sess.gate
    /\ lpc = "idle" /\ nLogin = 0 /\ spc = "start"

C23_Step ==
    /\ sess.pc \in {"idle", "done"} /\ sess' # sess =>
         /\ mres'.kind = "quickCheck"
         /\ sess'.gate = mres'.yes
         /\ ~sess'.client
         /\ sess'.cmd \in Commands
         /\ ~mres'.yes => sess'.pc = "done" /\ sess'.out = "notAuthenticated"
                          /\ nRefresh' = 0 /\ mpc' = "idle"
    /\ nRefresh' > nRefresh => sess.gate /\ sess'.client
    /\ mres'.kind = "client" /\ mres' # mres => sess.gate

ExpiredWithRefreshToken ==
    /\ sess.pc = "done"
    /\ mpc = "idle"
    /\ mres.kind \in {"quickCheck", "client"}
    /\ mres.before.file
    /\ WellFormed(mres.before.data)
    /\ Unmarshal(mres.before.data).refresh # ""
    /\ Unmarshal(mres.before.data).expiry.wall <= now + QuickCheckGuard

\* C24: a session command that finds an expired (or about to expire) access
\* token next to a refresh token obtains a refreshed token and goes on; it
\* does not send the user back to login.
C24_ExpiredTokenRefreshed ==
    ExpiredWithRefreshToken =>
      /\ sess.out # "notAuthenticated"
      /\ sess.client
      /\ nRefresh = 1

\* --------------------------------------------------------------------- C25
\* C25: the callback listener is bound to a loopback address, so the handler
\* runs for requests from this machine only.
C25_LoopbackOnly ==
    /\ bound => ListenAddr(cfgPort).host \in {"127.0.0.1", "localhost"}
    /\ \A r \in Reqs : h[r].pc # "absent" => origin = "local"

\* --------------------------------------------------------------------- C26
\* C26 as the spec has it: the token record is written before the shutdown
\* of the listener is begun, so while Login waits for Shutdown to return the
\* token file already holds the token received.
C26_AsClaimed ==
    lpc = "shutdownWait" /\ branch = "token" => tokenFile = FileOf(got.tok)

C26_Inv ==
    /\ lpc \in {"select", "shutdown", "shutdownWait", "save"} =>
         nWrites = 0 /\ tokenFile = fileAtStart
    /\ lpc = "save" =>
         /\ branch = "token"
         /\ shuttingDown
         /\ ~bound
         /\ srv # "serving"
         /\ nExch >= 1
    /\ Returned /\ loginResult.kind = "ok" =>
         /\ branch = "token"
         /\ shuttingDown
         /\ nWrites = 1
         /\ tokenFile = FileOf(got.tok)
         /\ nExch >= 1
         /\ \E r \in Reqs : h[r].pc = "done" /\ got.tok = TokenFor(r)

C26_Step ==
    nWrites' > nWrites \/ (tokenFile' # tokenFile) =>
      /\ lpc = "save"
      /\ shuttingDown
      /\ srv # "serving"

\* C26, amended: on a successful login the order is callback received,
\* state validated, code exchanged, server.Shutdown called and returned,
\* token persisted; the token file is written only after the shutdown of the
\* listener.
C26_ShutdownBeforeSave == [](C26_Inv) /\ [][C26_Step]_vars

C26_Witness ==
    /\ Returned
    /\ loginResult.kind = "ok"
    /\ shuttingDown
    /\ nWrites = 1
    /\ tokenFile = FileOf(got.tok)

\* --------------------------------------------------------------------- C27
C27_Inv ==
    \A r \in Reqs :
      /\ h[r].pc = "sendErr" /\ h[r].nx = 0 =>
           /\ h[r].resp = StatusBadRequest
           /\ h[r].sig.kind =
                IF h[r].st # state THEN "invalidState"
                ELSE IF h[r].er # "" THEN "authError"
                ELSE "noCode"
           /\ h[r].sig.kind = "noCode" => h[r].code = ""
      /\ h[r].pc = "sendErr" /\ h[r].nx > 0 =>
           /\ h[r].sig.kind = "exchangeFailed"
           /\ h[r].resp = StatusInternalServerError
      /\ h[r].pc \in {"exchange", "sendTok"} \/ h[r].nx > 0 =>
           h[r].st = state /\ h[r].er = "" /\ h[r].code # ""

C27_Step ==
    \A r \in Reqs :
      h[r].pc = "absent" /\ h'[r].pc = "sendErr" =>
        /\ nExch' = nExch
        /\ h'[r].nx = 0
        /\ errChan' = errChan
        /\ tokenChan' = tokenChan

\* C27: the handler checks the state, then the error, then the code, and
\* the first check that fails decides the response and the failure: a wrong
\* state is the invalid-state failure whatever else the request carries; the
\* right state with no error and an empty code is the missing-code failure;
\* both answer 400, and neither calls the token endpoint.
C27_ChecksInOrder == [](C27_Inv) /\ [][C27_Step]_vars

C27_Witness ==
    /\ h[1].pc = "sendErr"
    /\ h[1].st # state
    /\ h[1].er # ""
    /\ h[1].code # ""
    /\ h[1].sig.kind = "invalidState"
    /\ h[2].pc = "sendErr"
    /\ h[2].st = state
    /\ h[2].sig.kind = "noCode"
    /\ nExch = 0

\* --------------------------------------------------------------------- C28
\* C28: a Login attempt writes the token file at most once, exactly once
\* when it returns nil and never when it returns an error, and only after a
\* callback with the attempt's state and a code led to a successful
\* exchange.
C28_WriteAtMostOnce ==
    /\ nWrites <= 1
    /\ Returned /\ loginResult.kind = "ok" => nWrites = 1
    /\ Returned /\ loginResult.kind # "ok" => nWrites = 0 /\ tokenFile = fileAtStart
    /\ nWrites > 0 /\ lpc # "idle" => branch = "token" /\ nExch >= 1

\* What does hold: at most one write per attempt, one for a Login that
\* returned nil, none for an error other than the failure of saveToken
\* itself, and none without a successful exchange.
C28_WriteOnlyAfterExchange ==
    /\ nWrites <= 1
    /\ Returned /\ loginResult.kind = "ok" => nWrites = 1
    /\ Returned /\ loginResult.kind \notin {"ok", "saveFailed"} =>
         nWrites = 0 /\ tokenFile = fileAtStart
    /\ nWrites > 0 /\ lpc # "idle" => branch = "token" /\ nExch >= 1

\* --------------------------------------------------------------------- C29
\* The last operation was a GetAuthenticatedClient call that refreshed the
\* record it found.
Refreshed ==
    /\ mpc = "idle"
    /\ mres.kind = "client"
    /\ mres.refreshed
    /\ mres.err = ""

C29_Inv ==
    /\ mpc \in {"saveOpen", "saveWrite"} /\ mop.kind = "client" =>
         /\ mop.tok.refresh \in (RefreshTokens \ {""}) \cup {mop.old.refresh}
         /\ mop.old.refresh # "" => mop.tok.refresh # ""
    /\ Refreshed =>
         /\ mres.tok.refresh \in
              (RefreshTokens \ {""}) \cup {Unmarshal(mres.before.data).refresh}
         /\ Unmarshal(mres.before.data).refresh # "" => mres.tok.refresh # ""
         /\ mres.saveErr = "" =>
              /\ LoadToken(disk).err = ""
              /\ LoadToken(disk).tok.refresh = mres.tok.refresh

C29_Step ==
    mpc = "refresh" /\ mpc' = "saveOpen" =>
      /\ mop'.old = mop.old
      /\ mop'.tok.refresh \in (RefreshTokens \ {""}) \cup {mop.old.refresh}
      /\ mop.old = Unmarshal(mop.before.data)

\* C29: the record a refresh produces holds the refresh token of the reply
\* or, when the reply has none, the one that was sent; so a refresh of a
\* record with a refresh token gives a record with a refresh token, in the
\* client's token and, when the save succeeds, in the file.
C29_RefreshKeepsRefreshToken == [](C29_Inv) /\ [][C29_Step]_vars

C29_Witness ==
    /\ Refreshed
    /\ mres.saveErr = ""
    /\ Unmarshal(mres.before.data).refresh = "r0"
    /\ LoadToken(disk).tok.refresh = "r0"
    /\ LoadToken(disk).tok.access = "a1"

\* --------------------------------------------------------------------- C30
\* C30: two calls of SimpleParse on the same query return the same Filters,
\* the genre list, of at most three distinct genres, in the same order.
C30_Deterministic ==
    \A i, j \in 1..Len(parsed) :
      /\ parsed[i] = parsed[j]
      /\ Len(parsed[i].genres) <= MaxGenres

\* What does hold: the list has at most three genres, no genre twice, every
\* one of them a genre of a keyword in the query (or of "chill"), and the
\* fields other than the genres are the same in every call.
C30_AtMostThreeDistinct ==
    \A i, j \in 1..Len(parsed) :
      LET g == parsed[i].genres
      IN /\ Len(g) <= MaxGenres
         /\ \A a, b \in 1..Len(g) : g[a] = g[b] => a = b
         /\ \A a \in 1..Len(g) :
              \/ \E k \in query \cap GenreKeywords : g[a] = GenreMap(k)
              \/ "chill" \in query /\ g[a] \in {"chill", "ambient"}
         /\ parsed[i].maxEnergy = parsed[j].maxEnergy
         /\ parsed[i].maxDanceability = parsed[j].maxDanceability
         /\ parsed[i].yearStart = parsed[j].yearStart
         /\ parsed[i].yearEnd = parsed[j].yearEnd

====
